---------------------------- MODULE Spec2Model ----------------------------
(***************************************************************************)
(* Smart NOA Controller: the pharmacokinetic estimator                     *)
(* (Pharmacokinetics.update_concentration) and the closed-loop supervisor  *)
(* (SmartNOAController), modelled from src/smart_noa_controller.py.        *)
(*                                                                         *)
(* Python floats are modelled as fixed-point numbers: the float x is the   *)
(* integer x * Scale, products and quotients are rounded down to the       *)
(* resolution 1/Scale.  A float can also be NaN, which every arithmetic    *)
(* operation propagates and every comparison answers False for, as IEEE    *)
(* 754 and Python do.  Infinities are not modelled: magnitudes stay far    *)
(* below the overflow range.                                               *)
(***************************************************************************)
EXTENDS Integers, Sequences, FiniteSets, TLC

VARIABLES
    patient,        \* self.patient (Patient dataclass)
    config,         \* self.config.config: the set of key paths present in the YAML
    infusions,      \* self.infusions: drug name -> tagged value
    hard_lockouts,  \* self.hard_lockouts: list of drug names
    status,         \* self.status
    dex_pk,         \* self.dex_pk: [Vc, k10, k1e, Cp, Ce]
    t,              \* number of loop iterations of monitor_and_control completed
    hr,             \* hr read by the last iteration
    map_val,        \* map_val read by the last iteration
    pre,            \* history: status, infusions and dex_pk at the start of the last iteration
    fault,          \* where an exception ended the program: "none", "setup", "call", "tick"
    last,           \* the last operation on the controller and the value it returned
    hist            \* history of the update_concentration calls made on the estimator directly

vars == <<patient, config, infusions, hard_lockouts, status, dex_pk, t, hr, map_val, pre, fault,
          last, hist>>

-----------------------------------------------------------------------------
(* Bounds of the model *)

\* 1/60 is exact at every resolution: Scale = 60 * Resolution
Resolution == 10

\* duration_sec of monitor_and_control
MaxTicks == 5

\* number of update_concentration calls in the estimator-only specification
MaxCalls == 3

Scale == 60 * Resolution

-----------------------------------------------------------------------------
(* Python values: floats (fixed point, or NaN) and strings, tagged by type *)

F(x) == [tag |-> "float", v |-> x]

NaN == [tag |-> "nan", v |-> 0]

Str(s) == [tag |-> "str", v |-> 0, s |-> s]

\* isinstance(v, float)
IsFloat(x) == x.tag \in {"float", "nan"}

IsNaN(x) == x.tag = "nan"

\* the float written with the decimal literal n/d
Lit(n, d) == F((n * Scale) \div d)

FAdd(a, b) == IF IsNaN(a) \/ IsNaN(b) THEN NaN ELSE F(a.v + b.v)

FSub(a, b) == IF IsNaN(a) \/ IsNaN(b) THEN NaN ELSE F(a.v - b.v)

FMul(a, b) == IF IsNaN(a) \/ IsNaN(b) THEN NaN ELSE F((a.v * b.v) \div Scale)

\* b is never 0 here (Vc > 0, 60.0): Python would raise ZeroDivisionError
FDiv(a, b) == IF IsNaN(a) \/ IsNaN(b) THEN NaN ELSE F((a.v * Scale) \div b.v)

\* comparisons with NaN are False
FLt(a, b) == ~IsNaN(a) /\ ~IsNaN(b) /\ a.v < b.v

FGt(a, b) == ~IsNaN(a) /\ ~IsNaN(b) /\ a.v > b.v

FGe(a, b) == ~IsNaN(a) /\ ~IsNaN(b) /\ a.v >= b.v

Zero == F(0)


FromInt(n) == F(n * Scale)

-----------------------------------------------------------------------------
(* The configuration file. config.yaml is not among the sources: the values *)
(* the tests and the scenarios name are kept (hr 48, MAP 60, Ce threshold   *)
(* 0.1, eGFR minimum 30, geriatric age 65, geriatric dose = half the        *)
(* standard dose); the dosing and PK constants are chosen so that the       *)
(* estimator crosses the intervention threshold within MaxTicks ticks.      *)

ConfigFile ==
    [ hr_critical_low |-> 48,
      map_critical_low |-> 60,
      ce_intervention_threshold |-> Lit(1, 10),
      central_volume_L_per_kg |-> Lit(1, 20),
      elimination_rate_constant_k10 |-> Lit(6, 1),
      effect_site_transfer_k1e |-> Lit(30, 1),
      dex_standard_dose |-> Lit(60, 1),
      dex_geriatric_age_threshold |-> 65,
      dex_geriatric_dose |-> Lit(30, 1),
      ketamine_standard_dose |-> Lit(1, 4),
      lidocaine_standard_dose |-> Lit(3, 2),
      cardiac_conditions |-> <<"Heart Block", "Severe Bradycardia">>,
      egfr_minimum |-> 30,
      allergy_triggers |-> <<"NSAID", "Ketorolac">>,
      age_threshold |-> 65 ]

\* every key path of a complete configuration file
AllKeys ==
    { <<"hemodynamic_thresholds">>,
      <<"hemodynamic_thresholds", "hr_critical_low">>,
      <<"hemodynamic_thresholds", "map_critical_low">>,
      <<"pharmacokinetics">>,
      <<"pharmacokinetics", "dexmedetomidine">>,
      <<"pharmacokinetics", "dexmedetomidine", "central_volume_L_per_kg">>,
      <<"pharmacokinetics", "dexmedetomidine", "elimination_rate_constant_k10">>,
      <<"pharmacokinetics", "dexmedetomidine", "effect_site_transfer_k1e">>,
      <<"pharmacokinetics", "dexmedetomidine", "ce_intervention_threshold">>,
      <<"drug_dosing">>,
      <<"drug_dosing", "dexmedetomidine">>,
      <<"drug_dosing", "dexmedetomidine", "standard_dose">>,
      <<"drug_dosing", "dexmedetomidine", "geriatric_age_threshold">>,
      <<"drug_dosing", "dexmedetomidine", "geriatric_dose">>,
      <<"drug_dosing", "ketamine">>,
      <<"drug_dosing", "ketamine", "standard_dose">>,
      <<"drug_dosing", "lidocaine">>,
      <<"drug_dosing", "lidocaine", "standard_dose">>,
      <<"contraindications">>,
      <<"contraindications", "dexmedetomidine">>,
      <<"contraindications", "dexmedetomidine", "cardiac_conditions">>,
      <<"contraindications", "ketorolac">>,
      <<"contraindications", "ketorolac", "egfr_minimum">>,
      <<"contraindications", "ketorolac", "allergy_triggers">>,
      <<"age_adjustments">>,
      <<"age_adjustments", "geriatric">>,
      <<"age_adjustments", "geriatric", "age_threshold">> }

IsPrefix(p, q) == Len(p) <= Len(q) /\ SubSeq(q, 1, Len(p)) = p

\* the file with the entry k (and everything below it) left out
Without(k) == { p \in AllKeys : ~IsPrefix(k, p) }

\* ConfigLoader.get(*keys) finds a value (does not return the default None)
Has(cfg, path) == path \in cfg

\* ConfigLoader._validate_config does not raise ValueError
ValidateConfig(cfg) ==
    /\ <<"hemodynamic_thresholds">> \in cfg
    /\ <<"pharmacokinetics">> \in cfg
    /\ <<"drug_dosing">> \in cfg
    /\ <<"contraindications">> \in cfg

-----------------------------------------------------------------------------
(* Patient *)

Drugs == {"Dexmedetomidine", "Ketamine", "Lidocaine"}

Patients ==
    { [age |-> 65, weight_kg |-> 60, asa_class |-> 2, egfr |-> 95,
       allergies |-> <<>>, comorbidities |-> <<>>],
      [age |-> 66, weight_kg |-> 30, asa_class |-> 3, egfr |-> 30,
       allergies |-> <<>>, comorbidities |-> <<>>],
      [age |-> 66, weight_kg |-> 60, asa_class |-> 3, egfr |-> 29,
       allergies |-> <<"NSAID">>, comorbidities |-> <<"Heart Block">>],
      [age |-> 65, weight_kg |-> 30, asa_class |-> 2, egfr |-> 95,
       allergies |-> <<"Latex">>, comorbidities |-> <<"Asthma", "Severe Bradycardia">>] }

\* x in list
InList(x, list) == \E i \in 1..Len(list) : list[i] = x

\* any(x in a for x in b)
AnyIn(b, a) == \E i \in 1..Len(b) : InList(b[i], a)

-----------------------------------------------------------------------------
(* Pharmacokinetics *)

\* Pharmacokinetics.__init__
NewPharmacokinetics(weight_kg, central_vol, k10, k1e) ==
    [ Vc |-> FMul(central_vol, FromInt(weight_kg)),
      k10 |-> k10,
      k1e |-> k1e,
      Cp |-> Zero,
      Ce |-> Zero ]

\* mutant: nothing is eliminated from the central compartment
update_concentration_NoElimination(pk, infusion_rate_mcg_per_min, time_delta_min) ==
    LET infusion_mass_mcg == FMul(infusion_rate_mcg_per_min, time_delta_min)
        new_mass == FAdd(FMul(pk.Cp, pk.Vc), infusion_mass_mcg)
        Cp == IF FLt(new_mass, Zero) THEN Zero ELSE FDiv(new_mass, pk.Vc)
        dCe_dt == FMul(pk.k1e, FSub(Cp, pk.Ce))
        Ce == FAdd(pk.Ce, FMul(dCe_dt, time_delta_min))
    IN  [pk EXCEPT !.Cp = Cp,
                   !.Ce = IF FLt(Ce, Zero) THEN Zero ELSE Ce]

\* mutant: the effect site follows the plasma level of before the call
update_concentration_CeFromOldCp(pk, infusion_rate_mcg_per_min, time_delta_min) ==
    LET infusion_mass_mcg == FMul(infusion_rate_mcg_per_min, time_delta_min)
        elim_mass_mcg == FMul(FMul(FMul(pk.Cp, pk.k10), pk.Vc), time_delta_min)
        mass_change == FSub(infusion_mass_mcg, elim_mass_mcg)
        new_mass == FAdd(FMul(pk.Cp, pk.Vc), mass_change)
        Cp == IF FLt(new_mass, Zero) THEN Zero ELSE FDiv(new_mass, pk.Vc)
        dCe_dt == FMul(pk.k1e, FSub(pk.Cp, pk.Ce))
        Ce == FAdd(pk.Ce, FMul(dCe_dt, time_delta_min))
    IN  [pk EXCEPT !.Cp = Cp,
                   !.Ce = IF FLt(Ce, Zero) THEN Zero ELSE Ce]

\* Pharmacokinetics.update_concentration: the estimator after the call
update_concentration(pk, infusion_rate_mcg_per_min, time_delta_min) ==
    LET infusion_mass_mcg == FMul(infusion_rate_mcg_per_min, time_delta_min)
        elim_mass_mcg == FMul(FMul(FMul(pk.Cp, pk.k10), pk.Vc), time_delta_min)
        mass_change == FSub(infusion_mass_mcg, elim_mass_mcg)
        new_mass == FAdd(FMul(pk.Cp, pk.Vc), mass_change)
        Cp == IF FLt(new_mass, Zero) THEN Zero ELSE FDiv(new_mass, pk.Vc)
        dCe_dt == FMul(pk.k1e, FSub(Cp, pk.Ce))
        Ce == FAdd(pk.Ce, FMul(dCe_dt, time_delta_min))
    IN  [pk EXCEPT !.Cp = Cp,
                   !.Ce = IF FLt(Ce, Zero) THEN Zero ELSE Ce]

-----------------------------------------------------------------------------
(* SmartNOAController: case setup *)

\* SmartNOAController._initialize_pk_model
initialize_pk_model(p) ==
    NewPharmacokinetics(p.weight_kg,
                        ConfigFile.central_volume_L_per_kg,
                        ConfigFile.elimination_rate_constant_k10,
                        ConfigFile.effect_site_transfer_k1e)

\* mutant: the renal limit is inclusive
calculate_initial_lockouts_EgfrInclusive(p) ==
    LET renal == IF p.egfr <= ConfigFile.egfr_minimum THEN <<"Ketorolac">> ELSE <<>>
        cardiac == IF AnyIn(ConfigFile.cardiac_conditions, p.comorbidities)
                   THEN <<"Dexmedetomidine">> ELSE <<>>
        allergy == IF AnyIn(ConfigFile.allergy_triggers, p.allergies)
                   THEN <<"Ketorolac">> ELSE <<>>
    IN  renal \o cardiac \o allergy

\* SmartNOAController._calculate_initial_lockouts
calculate_initial_lockouts(p) ==
    LET renal == IF p.egfr < ConfigFile.egfr_minimum THEN <<"Ketorolac">> ELSE <<>>
        cardiac == IF AnyIn(ConfigFile.cardiac_conditions, p.comorbidities)
                   THEN <<"Dexmedetomidine">> ELSE <<>>
        allergy == IF AnyIn(ConfigFile.allergy_triggers, p.allergies)
                   THEN <<"Ketorolac">> ELSE <<>>
    IN  renal \o cardiac \o allergy

\* the constructor reads these entries; a missing one raises KeyError or TypeError
SetupKeys ==
    { <<"contraindications", "ketorolac", "egfr_minimum">>,
      <<"contraindications", "dexmedetomidine", "cardiac_conditions">>,
      <<"contraindications", "ketorolac", "allergy_triggers">>,
      <<"pharmacokinetics", "dexmedetomidine", "central_volume_L_per_kg">>,
      <<"pharmacokinetics", "dexmedetomidine", "elimination_rate_constant_k10">>,
      <<"pharmacokinetics", "dexmedetomidine", "effect_site_transfer_k1e">> }

\* SmartNOAController.__init__ returns without raising
ConstructOK(cfg) == ValidateConfig(cfg) /\ SetupKeys \subseteq cfg

\* self.infusions as the constructor sets it
InitialInfusions == [d \in Drugs |-> Zero]


\* no update_concentration call was made yet: Cp = Ce = 0.0
NoHistory ==
    [ calls |-> 0, infusing |-> TRUE, maxdt |-> Zero,
      zeros |-> 0, peak |-> Zero, washout |-> Zero ]

\* the state the constructor leaves, or the failed setup
Construct(p, cfg) ==
    /\ patient = p
    /\ config = cfg
    /\ infusions = InitialInfusions
    /\ status = "INITIALIZING"
    /\ t = 0
    /\ hr = 0
    /\ map_val = 0
    /\ IF ConstructOK(cfg)
       THEN /\ hard_lockouts = calculate_initial_lockouts(p)
            /\ dex_pk = initialize_pk_model(p)
            /\ fault = "none"
       ELSE /\ hard_lockouts = <<>>
            /\ dex_pk = [Vc |-> Zero, k10 |-> Zero, k1e |-> Zero, Cp |-> Zero, Ce |-> Zero]
            /\ fault = "setup"
    /\ pre = [status |-> status, infusions |-> infusions, dex_pk |-> dex_pk]
    /\ last = [op |-> "__init__"]
    /\ hist = NoHistory

-----------------------------------------------------------------------------
(* SmartNOAController.generate_starting_rates *)

\* the dict lookups of generate_starting_rates all succeed
GenerateOK(cfg, p, locks) ==
    /\ <<"drug_dosing", "lidocaine", "standard_dose">> \in cfg
    /\ <<"drug_dosing", "ketamine", "standard_dose">> \in cfg
    /\ <<"drug_dosing", "dexmedetomidine", "standard_dose">> \in cfg
    /\ \/ InList("Dexmedetomidine", locks)
       \/ /\ <<"drug_dosing", "dexmedetomidine", "geriatric_age_threshold">> \in cfg
          /\ p.age > ConfigFile.dex_geriatric_age_threshold
                => <<"drug_dosing", "dexmedetomidine", "geriatric_dose">> \in cfg

\* mutant: the age adjustment is applied before the lockout is looked at
DexRate_AgeFirst(p, locks) ==
    IF p.age > ConfigFile.dex_geriatric_age_threshold
    THEN ConfigFile.dex_geriatric_dose
    ELSE IF InList("Dexmedetomidine", locks) THEN Zero
    ELSE ConfigFile.dex_standard_dose

\* mutant: the lockout is not looked at
DexRate_IgnoresLock(p, locks) ==
    IF p.age > ConfigFile.dex_geriatric_age_threshold
    THEN ConfigFile.dex_geriatric_dose
    ELSE ConfigFile.dex_standard_dose

\* mutant: the geriatric dose starts at the threshold age itself
DexRate_FromThreshold(p, locks) ==
    IF InList("Dexmedetomidine", locks) THEN Zero
    ELSE IF p.age >= ConfigFile.dex_geriatric_age_threshold
         THEN ConfigFile.dex_geriatric_dose
         ELSE ConfigFile.dex_standard_dose

\* the Dexmedetomidine entry of rates after the constraints are applied
DexRate(p, locks) ==
    IF InList("Dexmedetomidine", locks) THEN Zero
    ELSE IF p.age > ConfigFile.dex_geriatric_age_threshold
         THEN ConfigFile.dex_geriatric_dose
         ELSE ConfigFile.dex_standard_dose

\* the entry of rates for the postoperative adjunct
KetorolacStatus(locks) ==
    IF InList("Ketorolac", locks) THEN Str("LOCKED OUT (CI)")
    ELSE Str("Available (30mg IV)")

\* the dict generate_starting_rates returns
generate_starting_rates(p, locks) ==
    [ k \in Drugs \cup {"Ketorolac Adjunct"} |->
        CASE k = "Lidocaine" -> ConfigFile.lidocaine_standard_dose
          [] k = "Ketamine" -> ConfigFile.ketamine_standard_dose
          [] k = "Dexmedetomidine" -> DexRate(p, locks)
          [] OTHER -> KetorolacStatus(locks) ]

\* mutant: every entry of rates is kept
FloatOnly_KeepAll(rates) == rates

\* {k: v for k, v in rates.items() if isinstance(v, float)}
FloatOnly(rates) ==
    [ k \in { x \in DOMAIN rates : IsFloat(rates[x]) } |-> rates[k] ]

\* d[k] = v
DictSet(d, k, v) == [ x \in DOMAIN d \cup {k} |-> IF x = k THEN v ELSE d[x] ]

\* d.get(k, default)
DictGet(d, k, default) == IF k \in DOMAIN d THEN d[k] ELSE default

Snapshot == [status |-> status, infusions |-> infusions, dex_pk |-> dex_pk]

\* mutant: the starting rates are added to the rates in force
GenerateCall_Accumulate ==
    /\ fault = "none"
    /\ infusions' = [ d \in DOMAIN infusions |->
                        FAdd(infusions[d], generate_starting_rates(patient, hard_lockouts)[d]) ]
    /\ last' = [ op |-> "generate_starting_rates",
                 result |-> generate_starting_rates(patient, hard_lockouts),
                 again |-> last.op = "generate_starting_rates" ]
    /\ UNCHANGED <<patient, config, hard_lockouts, status, dex_pk, t, hr, map_val, pre, hist,
                   fault>>

\* a call of generate_starting_rates from outside the loop
GenerateCall ==
    /\ fault = "none"
    /\ IF GenerateOK(config, patient, hard_lockouts)
       THEN /\ infusions' = FloatOnly(generate_starting_rates(patient, hard_lockouts))
            /\ last' = [ op |-> "generate_starting_rates",
                         result |-> generate_starting_rates(patient, hard_lockouts),
                         again |-> last.op = "generate_starting_rates" ]
            /\ fault' = fault
       ELSE /\ infusions' = infusions
            /\ last' = [op |-> "raised"]
            /\ fault' = "call"
    /\ UNCHANGED <<patient, config, hard_lockouts, status, dex_pk, t, hr, map_val, pre, hist>>

-----------------------------------------------------------------------------
(* SmartNOAController.check_contraindication *)

\* the comparison of the age with the configured threshold does not raise
CheckOK(cfg, locks, drug) ==
    \/ InList(drug, locks)
    \/ drug # "Dexmedetomidine"
    \/ <<"age_adjustments", "geriatric", "age_threshold">> \in cfg

\* the rationale of a hard lock: dict.get(drug, default)
LockReason(drug) ==
    CASE drug = "Dexmedetomidine" ->
            "3rd-degree heart block or severe bradycardia risk (ASA/ESRA Guideline)"
      [] drug = "Ketorolac" -> "Severe renal impairment (eGFR < 30) or known allergy"
      [] OTHER -> "Patient-specific contraindication"

\* mutant: the geriatric warning refuses the drug
check_contraindication_WarningRefuses(p, locks, drug) ==
    IF InList(drug, locks)
    THEN [allowed |-> FALSE, message |-> <<"HARD LOCK: ", LockReason(drug)>>]
    ELSE IF drug = "Dexmedetomidine" /\ p.age > ConfigFile.age_threshold
    THEN [ allowed |-> FALSE,
           message |-> << "SOFT WARNING: Geriatric patient (>",
                          ToString(ConfigFile.age_threshold),
                          "yo). Suggest 50% max dose reduction." >> ]
    ELSE [allowed |-> TRUE, message |-> <<"Safe within protocol limits">>]

\* the tuple check_contraindication returns; a message is the sequence of the
\* parts of its f-string
check_contraindication(p, locks, drug) ==
    IF InList(drug, locks)
    THEN [allowed |-> FALSE, message |-> <<"HARD LOCK: ", LockReason(drug)>>]
    ELSE IF drug = "Dexmedetomidine" /\ p.age > ConfigFile.age_threshold
    THEN [ allowed |-> TRUE,
           message |-> << "SOFT WARNING: Geriatric patient (>",
                          ToString(ConfigFile.age_threshold),
                          "yo). Suggest 50% max dose reduction." >> ]
    ELSE [allowed |-> TRUE, message |-> <<"Safe within protocol limits">>]

\* mutant: a refused drug is entered into the lockouts once more
CheckCall_RecordsRefusal(drug) ==
    /\ fault = "none"
    /\ last' = [ op |-> "check_contraindication", drug |-> drug,
                 allowed |-> check_contraindication(patient, hard_lockouts, drug).allowed,
                 message |-> check_contraindication(patient, hard_lockouts, drug).message ]
    /\ hard_lockouts' = IF InList(drug, hard_lockouts)
                        THEN Append(hard_lockouts, drug) ELSE hard_lockouts
    /\ UNCHANGED <<patient, config, infusions, status, dex_pk, t, hr, map_val, pre, hist,
                   fault>>

\* a call of check_contraindication(drug)
CheckCall(drug) ==
    /\ fault = "none"
    /\ IF CheckOK(config, hard_lockouts, drug)
       THEN /\ last' = [ op |-> "check_contraindication", drug |-> drug,
                         allowed |-> check_contraindication(patient, hard_lockouts, drug).allowed,
                         message |-> check_contraindication(patient, hard_lockouts, drug).message ]
            /\ fault' = fault
       ELSE /\ last' = [op |-> "raised"]
            /\ fault' = "call"
    /\ UNCHANGED <<patient, config, infusions, hard_lockouts, status, dex_pk, t, hr, map_val,
                   pre, hist>>

-----------------------------------------------------------------------------
(* SmartNOAController.monitor_and_control *)

\* time_step_min = 1/60.0
time_step_min == FDiv(FromInt(1), FromInt(60))

\* SmartNOAController._rate_to_mcg_per_min
rate_to_mcg_per_min(inf, p, drug) ==
    LET rate_mcg_per_hour == DictGet(inf, drug, Zero)
    IN  FDiv(FMul(rate_mcg_per_hour, FromInt(p.weight_kg)), FromInt(60))

\* mutant: the estimator is not advanced while the infusion is paused
AdvancePK_SkipWhenPaused(pk, inf, p) ==
    IF DictGet(inf, "Dexmedetomidine", Zero) = Zero THEN pk
    ELSE update_concentration(pk, rate_to_mcg_per_min(inf, p, "Dexmedetomidine"),
                              time_step_min)

\* the estimator after step 2 of an iteration
AdvancePK(pk, inf, p) ==
    update_concentration(pk, rate_to_mcg_per_min(inf, p, "Dexmedetomidine"), time_step_min)

\* mutant: the heart-rate comparison is off by one
InterlockA_OffByOne(h, dex_ce) ==
    h < ConfigFile.hr_critical_low - 1 /\ FGt(dex_ce, ConfigFile.ce_intervention_threshold)

\* mutant: a low heart rate alone fires the interlock
InterlockA_HrOnly(h, dex_ce) == h < ConfigFile.hr_critical_low

\* the condition of Interlock A
InterlockA(h, dex_ce) ==
    h < ConfigFile.hr_critical_low /\ FGt(dex_ce, ConfigFile.ce_intervention_threshold)

\* the condition of Interlock B
InterlockB(m) == m < ConfigFile.map_critical_low

\* the iteration raises TypeError or KeyError: a threshold the comparisons reach is
\* None, or the stable branch calls generate_starting_rates and a lookup fails
TickRaises(cfg, p, locks, st, h, m, dex_ce) ==
    IF ~Has(cfg, <<"hemodynamic_thresholds", "hr_critical_low">>) THEN TRUE
    ELSE IF h < ConfigFile.hr_critical_low
            /\ ~Has(cfg, <<"pharmacokinetics", "dexmedetomidine", "ce_intervention_threshold">>)
         THEN TRUE
    ELSE IF InterlockA(h, dex_ce) THEN FALSE
    ELSE IF ~Has(cfg, <<"hemodynamic_thresholds", "map_critical_low">>) THEN TRUE
    ELSE IF InterlockB(m) THEN FALSE
    ELSE st # "GREEN" /\ ~GenerateOK(cfg, p, locks)

\* mutant: Interlock B pauses Dexmedetomidine only
ControlInfusions_DexOnly(inf, p, locks, st, h, m, dex_ce) ==
    IF InterlockA(h, dex_ce) \/ InterlockB(m)
    THEN DictSet(inf, "Dexmedetomidine", Zero)
    ELSE IF st # "GREEN"
    THEN FloatOnly(generate_starting_rates(p, locks))
    ELSE inf

\* mutant: the stable branch never regenerates the rates
ControlInfusions_NoRegenerate(inf, p, locks, st, h, m, dex_ce) ==
    IF InterlockA(h, dex_ce)
    THEN DictSet(inf, "Dexmedetomidine", Zero)
    ELSE IF InterlockB(m)
    THEN DictSet(DictSet(inf, "Dexmedetomidine", Zero), "Lidocaine", Zero)
    ELSE inf

\* mutant: the stable branch regenerates the rates on every tick
ControlInfusions_AlwaysRegenerate(inf, p, locks, st, h, m, dex_ce) ==
    IF InterlockA(h, dex_ce)
    THEN DictSet(inf, "Dexmedetomidine", Zero)
    ELSE IF InterlockB(m)
    THEN DictSet(DictSet(inf, "Dexmedetomidine", Zero), "Lidocaine", Zero)
    ELSE FloatOnly(generate_starting_rates(p, locks))

\* mutant: Interlock B pauses every infusion
ControlInfusions_PauseAll(inf, p, locks, st, h, m, dex_ce) ==
    IF InterlockA(h, dex_ce)
    THEN DictSet(inf, "Dexmedetomidine", Zero)
    ELSE IF InterlockB(m)
    THEN [ d \in DOMAIN inf |-> Zero ]
    ELSE IF st # "GREEN"
    THEN FloatOnly(generate_starting_rates(p, locks))
    ELSE inf

\* mutant: Interlock B pauses Lidocaine only
ControlInfusions_LidoOnly(inf, p, locks, st, h, m, dex_ce) ==
    IF InterlockA(h, dex_ce)
    THEN DictSet(inf, "Dexmedetomidine", Zero)
    ELSE IF InterlockB(m)
    THEN DictSet(inf, "Lidocaine", Zero)
    ELSE IF st # "GREEN"
    THEN FloatOnly(generate_starting_rates(p, locks))
    ELSE inf

\* mutant: the two interlock conditions are two separate if statements
ControlInfusions_BothRun(inf, p, locks, st, h, m, dex_ce) ==
    IF InterlockB(m)
    THEN DictSet(DictSet(inf, "Dexmedetomidine", Zero), "Lidocaine", Zero)
    ELSE IF InterlockA(h, dex_ce)
    THEN DictSet(inf, "Dexmedetomidine", Zero)
    ELSE IF st # "GREEN"
    THEN FloatOnly(generate_starting_rates(p, locks))
    ELSE inf

\* self.infusions after step 3 of an iteration
ControlInfusions(inf, p, locks, st, h, m, dex_ce) ==
    IF InterlockA(h, dex_ce)
    THEN DictSet(inf, "Dexmedetomidine", Zero)
    ELSE IF InterlockB(m)
    THEN DictSet(DictSet(inf, "Dexmedetomidine", Zero), "Lidocaine", Zero)
    ELSE IF st # "GREEN"
    THEN FloatOnly(generate_starting_rates(p, locks))
    ELSE inf

\* mutant: Interlock B leaves the status alone
ControlStatus_AOnly(h, m, dex_ce) ==
    IF InterlockA(h, dex_ce) THEN "RED" ELSE "GREEN"

\* mutant: the stable branch leaves the status as the constructor set it
ControlStatus_NoGreen(h, m, dex_ce) ==
    IF InterlockA(h, dex_ce) \/ InterlockB(m) THEN "RED" ELSE "INITIALIZING"

\* self.status after step 3 of an iteration
ControlStatus(h, m, dex_ce) ==
    IF InterlockA(h, dex_ce) \/ InterlockB(m) THEN "RED" ELSE "GREEN"

\* one iteration of the loop of monitor_and_control with the vitals h, m
Tick(h, m) ==
    /\ fault = "none"
    /\ t < MaxTicks
    /\ hr' = h
    /\ map_val' = m
    /\ pre' = Snapshot
    /\ dex_pk' = AdvancePK(dex_pk, infusions, patient)
    /\ IF TickRaises(config, patient, hard_lockouts, status, h, m, dex_pk'.Ce)
       THEN /\ fault' = "tick"
            /\ UNCHANGED <<infusions, status, t>>
       ELSE /\ infusions' = ControlInfusions(infusions, patient, hard_lockouts,
                                             status, h, m, dex_pk'.Ce)
            /\ status' = ControlStatus(h, m, dex_pk'.Ce)
            /\ t' = t + 1
            /\ fault' = fault
    /\ last' = [op |-> "tick"]
    /\ UNCHANGED <<patient, config, hard_lockouts, hist>>

\* hr = random.randint(40, 95): values on both sides of the threshold
HrValues == {47, 48}

\* map_val = random.randint(50, 105): values on both sides of the threshold
MapValues == {59, 60}

Init == \E p \in Patients : Construct(p, AllKeys)

Next ==
    \/ GenerateCall
    \/ \E h \in HrValues, m \in MapValues : Tick(h, m)

Spec == Init /\ [][Next]_vars


-----------------------------------------------------------------------------
(* The loop fed by a monitor that can deliver no value (None) for a reading *)

\* None in the place of hr or map_val
NoReading == 0 - 1

\* hr < hr_threshold, or map_val < map_threshold when it is evaluated, raises
\* TypeError on None
MissingRaises(h, m, dex_ce) ==
    \/ h = NoReading
    \/ m = NoReading /\ ~InterlockA(h, dex_ce)

\* one iteration of the loop in which a reading is None
TickMissing(h, m) ==
    /\ fault = "none"
    /\ t < MaxTicks
    /\ h = NoReading \/ m = NoReading
    /\ hr' = h
    /\ map_val' = m
    /\ pre' = Snapshot
    /\ dex_pk' = AdvancePK(dex_pk, infusions, patient)
    /\ IF \/ MissingRaises(h, m, dex_pk'.Ce)
          \/ TickRaises(config, patient, hard_lockouts, status, h, m, dex_pk'.Ce)
       THEN /\ fault' = "tick"
            /\ UNCHANGED <<infusions, status, t>>
       ELSE /\ infusions' = ControlInfusions(infusions, patient, hard_lockouts,
                                             status, h, m, dex_pk'.Ce)
            /\ status' = ControlStatus(h, m, dex_pk'.Ce)
            /\ t' = t + 1
            /\ fault' = fault
    /\ last' = [op |-> "tick"]
    /\ UNCHANGED <<patient, config, hard_lockouts, hist>>

NextMissing ==
    \/ Next
    \/ \E h \in HrValues \cup {NoReading}, m \in MapValues \cup {NoReading} : TickMissing(h, m)

SpecMissing == Init /\ [][NextMissing]_vars

-----------------------------------------------------------------------------
(* The caller writes a rate into controller.infusions, as the demo and the *)
(* rate conversion test do.                                                *)

ManualRates == { Lit(45, 1) }

ManualDrugs == {"Dexmedetomidine", "Ketamine"}

SetInfusion(drug, v) ==
    /\ fault = "none"
    /\ infusions' = DictSet(infusions, drug, v)
    /\ last' = [op |-> "write"]
    /\ UNCHANGED <<patient, config, hard_lockouts, status, dex_pk, t, hr, map_val, pre, fault,
                   hist>>

NextExt ==
    \/ Next
    \/ \E d \in ManualDrugs, v \in ManualRates : SetInfusion(d, v)

ExtPatients == { p \in Patients : p.age > 65 }

InitExt == \E p \in ExtPatients : Construct(p, AllKeys)

SpecExt == InitExt /\ [][NextExt]_vars

-----------------------------------------------------------------------------
(* Case setup with an incomplete configuration file: one entry is left out *)

CfgPatients == { p \in Patients : p.weight_kg = 60 }

InitCfg == \E p \in CfgPatients, k \in AllKeys : Construct(p, Without(k))

SpecCfg == InitCfg /\ [][Next]_vars

-----------------------------------------------------------------------------
(* The estimator alone: update_concentration called with any rate and step *)

PKRates == { NaN, F(0 - 6 * Scale), Zero, FromInt(6) }

PKSteps == { time_step_min, Lit(1, 6), F(0 - Resolution) }

\* the history after one more call with this rate and step, made at the level cp
Record(h, cp, rate, dt) ==
    [ calls |-> h.calls + 1,
      infusing |-> h.infusing /\ FGt(rate, Zero) /\ FGt(dt, Zero),
      maxdt |-> IF FGt(dt, h.maxdt) THEN dt ELSE h.maxdt,
      zeros |-> IF rate = Zero THEN h.zeros + 1 ELSE 0,
      peak |-> IF rate = Zero /\ h.zeros > 0 THEN h.peak ELSE cp,
      washout |-> IF rate # Zero THEN Zero
                  ELSE IF h.zeros > 0 THEN FAdd(h.washout, dt) ELSE dt ]

PKCall(rate, dt) ==
    /\ t < MaxCalls
    /\ t' = t + 1
    /\ pre' = Snapshot
    /\ dex_pk' = update_concentration(dex_pk, rate, dt)
    /\ last' = [ op |-> "update_concentration", rate |-> rate, dt |-> dt,
                 result |-> <<dex_pk'.Cp, dex_pk'.Ce>> ]
    /\ hist' = Record(hist, dex_pk.Cp, rate, dt)
    /\ UNCHANGED <<patient, config, infusions, hard_lockouts, status, hr, map_val, fault>>

NextPK == \E rate \in PKRates, dt \in PKSteps : PKCall(rate, dt)

SpecPK == Init /\ [][NextPK]_vars


-----------------------------------------------------------------------------
(* The estimator alone, built with any rate constants and called with rates *)
(* and steps >= 0: infusion and washout                                     *)

WashK10 == { Zero, FromInt(6), FromInt(18) }

WashK1e == { Zero, FromInt(3), FromInt(30) }

WashRates == { Zero, FromInt(6) }

WashSteps == { Zero, time_step_min, Lit(1, 6) }

WashPatients == { p \in Patients : p.egfr >= 30 /\ p.allergies = <<>> }

InitWash ==
    \E p \in WashPatients, k10 \in WashK10, k1e \in WashK1e :
        /\ patient = p
        /\ config = AllKeys
        /\ infusions = InitialInfusions
        /\ status = "INITIALIZING"
        /\ t = 0
        /\ hr = 0
        /\ map_val = 0
        /\ hard_lockouts = calculate_initial_lockouts(p)
        /\ dex_pk = NewPharmacokinetics(p.weight_kg, ConfigFile.central_volume_L_per_kg,
                                        k10, k1e)
        /\ fault = "none"
        /\ pre = [status |-> status, infusions |-> infusions, dex_pk |-> dex_pk]
        /\ last = [op |-> "__init__"]
        /\ hist = NoHistory

NextWash == \E rate \in WashRates, dt \in WashSteps : PKCall(rate, dt)

SpecWash == InitWash /\ [][NextWash]_vars

-----------------------------------------------------------------------------
(* Case setup over patient profiles on both sides of every lockout predicate, *)
(* followed by calls of check_contraindication and generate_starting_rates    *)

SetupAges == {65, 66}

SetupEgfr == {29, 30}

SetupAllergies == { <<>>, <<"NSAID">>, <<"Latex">>, <<"Latex", "Ketorolac">> }

SetupComorbidities ==
    { <<>>, <<"Heart Block">>, <<"Asthma">>, <<"Asthma", "Severe Bradycardia">> }

SetupPatients ==
    { [age |-> a, weight_kg |-> 60, asa_class |-> 2, egfr |-> e,
       allergies |-> al, comorbidities |-> co] :
         a \in SetupAges, e \in SetupEgfr, al \in SetupAllergies, co \in SetupComorbidities }

\* the drugs asked about: the lockable ones, the other infusions, an unknown one
CheckDrugs == Drugs \cup {"Ketorolac", "Propofol"}

InitSetup == \E p \in SetupPatients : Construct(p, AllKeys)

NextSetup ==
    \/ GenerateCall
    \/ \E d \in CheckDrugs : CheckCall(d)

SpecSetup == InitSetup /\ [][NextSetup]_vars

-----------------------------------------------------------------------------
(* The controller with every call of its interface: protocol generation,   *)
(* contraindication checks and the loop                                     *)

NextCalls ==
    \/ Next
    \/ \E d \in CheckDrugs : CheckCall(d)

SpecCalls == Init /\ [][NextCalls]_vars

-----------------------------------------------------------------------------
(* Vocabulary of the properties *)

Dex == "Dexmedetomidine"

Lido == "Lidocaine"

\* a step that completes one iteration of the control loop
TickDone == t' = t + 1

HrLow == hr < 48

MapLow == map_val < 60

CeHigh == ~IsNaN(dex_pk.Ce) /\ dex_pk.Ce.v > Scale \div 10

DexLocked == \E i \in 1..Len(hard_lockouts) : hard_lockouts[i] = Dex

\* the vector the protocol generator yields for the patient
ProtocolVector ==
    [ d \in Drugs |->
        IF d = Lido THEN ConfigFile.lidocaine_standard_dose
        ELSE IF d = "Ketamine" THEN ConfigFile.ketamine_standard_dose
        ELSE IF DexLocked THEN F(0)
        ELSE IF patient.age >= 66 THEN ConfigFile.dex_geriatric_dose
        ELSE ConfigFile.dex_standard_dose ]

-----------------------------------------------------------------------------
(* C1: Interlock A. Every completed tick whose hr is below the critical-low *)
(* heart rate and whose Ce, after this tick's advance of the estimator, is  *)
(* above the intervention threshold ends with the Dexmedetomidine rate 0    *)
(* and status RED, whatever status and rates were before.                   *)
C1_InterlockA ==
    [][ (TickDone /\ HrLow' /\ CeHigh') => (infusions'[Dex] = F(0) /\ status' = "RED") ]_vars

\* Interlock A has just stopped a running Dexmedetomidine infusion in status GREEN
C1_Witness ==
    /\ t > 0 /\ HrLow /\ CeHigh /\ ~MapLow
    /\ pre.status = "GREEN" /\ pre.infusions[Dex].v > 0
    /\ infusions[Dex] = F(0) /\ status = "RED"

(* C2: Interlock B. Every completed tick on which Interlock A does not fire *)
(* and map is below the critical-low MAP ends with the Dexmedetomidine and  *)
(* Lidocaine rates 0 and status RED, whatever Ce is.                        *)
C2_InterlockB ==
    [][ (TickDone /\ ~(HrLow' /\ CeHigh') /\ MapLow')
            => (infusions'[Dex] = F(0) /\ infusions'[Lido] = F(0) /\ status' = "RED") ]_vars

\* Interlock B has just stopped both infusions with Ce above the intervention threshold
C2_Witness ==
    /\ t > 0 /\ ~HrLow /\ MapLow /\ CeHigh
    /\ pre.infusions[Dex].v > 0 /\ pre.infusions[Lido].v > 0
    /\ infusions[Dex] = F(0) /\ infusions[Lido] = F(0) /\ status = "RED"

(* C3: a locked-out Dexmedetomidine has rate 0 in every state reached from  *)
(* construction by generate_starting_rates calls and ticks, for every age.  *)
C3_LockedNeverInfused == DexLocked => infusions[Dex] = F(0)

\* a geriatric patient with Dexmedetomidine locked out, after the rates were regenerated
C3_Witness ==
    /\ DexLocked /\ patient.age > 65 /\ t > 0 /\ status = "GREEN"
    /\ infusions[Lido].v > 0 /\ infusions[Dex] = F(0)

(* C4: stabilization. Every completed tick on which neither interlock fires *)
(* and whose status before was not GREEN ends with status GREEN and with    *)
(* the rate vector equal to the protocol generator's output for the         *)
(* patient, also when other rates were in force before.                     *)
C4_Stabilization ==
    [][ (TickDone /\ ~(HrLow' /\ CeHigh') /\ ~MapLow' /\ status # "GREEN")
            => (status' = "GREEN" /\ infusions' = ProtocolVector) ]_vars

\* the loop has just left RED, and a rate written by the caller was not restored
C4_Witness ==
    /\ t > 1 /\ pre.status = "RED" /\ status = "GREEN" /\ ~MapLow
    /\ pre.infusions["Ketamine"] \in ManualRates
    /\ pre.infusions["Ketamine"] # ProtocolVector["Ketamine"]
    /\ infusions = ProtocolVector


(* C5: after any sequence of update_concentration calls, with any infusion *)
(* rates and any time steps, Cp >= 0 and Ce >= 0.                           *)
C5_NonNegative ==
    /\ ~IsNaN(dex_pk.Cp) /\ dex_pk.Cp.v >= 0
    /\ ~IsNaN(dex_pk.Ce) /\ dex_pk.Ce.v >= 0

\* what the clamps do establish: a concentration that is a number is not negative
C5_ClampedUnlessNaN ==
    /\ IsNaN(dex_pk.Cp) \/ dex_pk.Cp.v >= 0
    /\ IsNaN(dex_pk.Ce) \/ dex_pk.Ce.v >= 0

(* C6: precedence. On a completed tick on which the conditions of both      *)
(* interlocks hold, only Interlock A runs: Dexmedetomidine is set to 0 and  *)
(* the status to RED, and the Lidocaine and Ketamine rates stay as they     *)
(* were before the tick.                                                    *)
C6_OnlyInterlockA ==
    [][ (TickDone /\ HrLow' /\ CeHigh' /\ MapLow')
            => /\ infusions'[Dex] = F(0)
               /\ status' = "RED"
               /\ infusions'[Lido] = infusions[Lido]
               /\ infusions'["Ketamine"] = infusions["Ketamine"] ]_vars

\* both conditions held, Dexmedetomidine was stopped and Lidocaine keeps running
C6_Witness ==
    /\ t > 0 /\ HrLow /\ CeHigh /\ MapLow
    /\ status = "RED" /\ pre.infusions[Dex].v > 0 /\ infusions[Dex] = F(0)
    /\ infusions[Lido].v > 0 /\ infusions[Lido] = pre.infusions[Lido]

(* C7: Interlock A needs both conditions. A completed tick with hr below    *)
(* its threshold, Ce at or below the intervention threshold and map not     *)
(* below its threshold ends with status GREEN, and no rate that was running *)
(* before the tick is 0 after it.                                           *)
C7_LowHrAloneDoesNotFire ==
    [][ (TickDone /\ HrLow' /\ ~CeHigh' /\ ~MapLow')
            => /\ status' = "GREEN"
               /\ \A d \in Drugs : infusions[d] # F(0) => infusions'[d] # F(0) ]_vars

\* a low heart rate with drug on board below the threshold: the infusion goes on
C7_Witness ==
    /\ t > 0 /\ HrLow /\ ~CeHigh /\ ~MapLow /\ status = "GREEN"
    /\ dex_pk.Ce.v > 0
    /\ pre.infusions[Dex].v > 0 /\ infusions = pre.infusions

(* C8, as claimed: whenever a tick ends with status GREEN, that tick's hr   *)
(* is not below the critical-low heart rate and its map is not below the    *)
(* critical-low MAP.                                                        *)
C8_GreenImpliesVitalsSafe ==
    [][ (TickDone /\ status' = "GREEN") => (~HrLow' /\ ~MapLow') ]_vars

(* C8, amended: whenever a tick ends with status GREEN, that tick's map is  *)
(* not below the critical-low MAP, and its hr is not below the critical-low *)
(* heart rate or the Ce after the tick's advance is at or below the         *)
(* intervention threshold.                                                  *)
C8_GreenImpliesNoInterlock ==
    [][ (TickDone /\ status' = "GREEN") => (~MapLow' /\ (~HrLow' \/ ~CeHigh')) ]_vars

\* the first tick of a case ends GREEN with a heart rate below the threshold
C8_Witness ==
    /\ t = 1 /\ status = "GREEN" /\ HrLow /\ ~MapLow /\ dex_pk.Ce = F(0)

(* C9: on every completed tick, in every status, the estimator is advanced  *)
(* exactly once with the Dexmedetomidine rate in force at the start of the  *)
(* tick times the patient's weight over 60, over a step of 1/60 minute, and *)
(* the tick's interlock decision reads the Ce this advance produced.        *)
C9_AdvanceThenDecide ==
    [][ TickDone =>
          /\ dex_pk' = update_concentration(
                 dex_pk,
                 F(((((infusions[Dex].v * (patient.weight_kg * Scale)) \div Scale) * Scale)
                        \div (60 * Scale))),
                 F(Resolution))
          /\ status' = "RED" <=> ((HrLow' /\ CeHigh') \/ MapLow') ]_vars

\* a tick that started in RED with the infusion paused has let the plasma level decay
C9_Witness ==
    /\ t > 1 /\ pre.status = "RED" /\ pre.infusions[Dex] = F(0)
    /\ pre.dex_pk.Cp.v > 0 /\ dex_pk.Cp.v < pre.dex_pk.Cp.v

\* the configuration entries the supervisor reads at setup or in the loop
UsedKeys == { k \in AllKeys : k[1] # "age_adjustments" }

(* C10: a missing section, threshold, PK constant or dosing entry makes the *)
(* construction fail before any tick runs, and no tick of a constructed     *)
(* controller fails for a missing configuration entry: a tick runs, or      *)
(* fails, only under a configuration with every entry the supervisor uses.  *)
C10_ConfigErrorsAtSetup ==
    (t > 0 \/ fault = "tick") => UsedKeys \subseteq config

-----------------------------------------------------------------------------
(* Lockout computation and the setup calls *)

\* the entries of a list, as a set
Entries(list) == { list[i] : i \in 1..Len(list) }

KetorolacLocked == \E i \in 1..Len(hard_lockouts) : hard_lockouts[i] = "Ketorolac"

(* C11: Ketorolac is locked out iff the eGFR is strictly below the configured *)
(* minimum or an allergy of the patient is an allergy trigger; Dexmedetomidine *)
(* is locked out iff a comorbidity of the patient is a cardiac condition; no   *)
(* other drug is ever locked out.                                              *)
C11_LockoutComputation ==
    fault = "none" =>
        /\ KetorolacLocked <=>
              \/ patient.egfr < ConfigFile.egfr_minimum
              \/ Entries(patient.allergies) \cap Entries(ConfigFile.allergy_triggers) # {}
        /\ DexLocked <=>
              Entries(patient.comorbidities) \cap Entries(ConfigFile.cardiac_conditions) # {}
        /\ Entries(hard_lockouts) \subseteq {"Ketorolac", Dex}

\* an eGFR at the minimum with a matching allergy: Ketorolac alone is locked
C11_Witness ==
    /\ patient.egfr = ConfigFile.egfr_minimum
    /\ patient.allergies = <<"Latex", "Ketorolac">>
    /\ patient.comorbidities = <<"Asthma">>
    /\ Entries(hard_lockouts) = {"Ketorolac"}

(* C12: check_contraindication(drug) refuses the drug iff it is locked out,  *)
(* and then the message starts with HARD LOCK and carries a rationale, the   *)
(* generic one for a drug without its own; the geriatric warning for         *)
(* Dexmedetomidine always comes with allowed = true.                         *)
C12_CheckContraindication ==
    last.op = "check_contraindication" =>
        /\ ~last.allowed <=> last.drug \in Entries(hard_lockouts)
        /\ ~last.allowed =>
              /\ Len(last.message) = 2
              /\ last.message[1] = "HARD LOCK: "
              /\ last.message[2] # ""
              /\ last.drug \notin {"Ketorolac", Dex}
                    => last.message[2] = "Patient-specific contraindication"
        /\ last.message[1] = "SOFT WARNING: Geriatric patient (>"
              => last.allowed /\ last.drug = Dex

\* a locked drug was asked about and refused
C12_Witness ==
    /\ last.op = "check_contraindication"
    /\ last.drug = "Ketorolac"
    /\ ~last.allowed
    /\ last.message[1] = "HARD LOCK: "

C18_NoDuplicateLockout ==
    \A i, j \in 1..Len(hard_lockouts) : hard_lockouts[i] = hard_lockouts[j] => i = j

-----------------------------------------------------------------------------
(* Protocol generation, the status and the rate vector *)

(* C14: generate_starting_rates is idempotent: a call that follows a call    *)
(* returns the same result and leaves the infusion rates as the first call   *)
(* left them.                                                                *)
C14_GenerateIdempotent ==
    [][ (last.op = "generate_starting_rates" /\ last'.op = "generate_starting_rates")
            => (last'.result = last.result /\ infusions' = infusions) ]_vars

\* a second call in a row, made after the loop had paused Dexmedetomidine
C14_Witness ==
    /\ last.op = "generate_starting_rates"
    /\ last.again
    /\ status = "RED"
    /\ infusions = FloatOnly(last.result)

\* a next iteration of the loop can end with this status: some vitals make Tick
\* complete and set it
CanTick(s) ==
    \E h \in HrValues, m \in MapValues :
        LET ce == AdvancePK(dex_pk, infusions, patient).Ce
        IN  /\ ~TickRaises(config, patient, hard_lockouts, status, h, m, ce)
            /\ ControlStatus(h, m, ce) = s

(* C15: the status is INITIALIZING until the first tick and only then; after *)
(* every tick it is GREEN or RED; a single tick can reach RED and can reach  *)
(* GREEN, from INITIALIZING, from GREEN and from RED.                        *)
C15_StatusMachine ==
    /\ status \in {"INITIALIZING", "GREEN", "RED"}
    /\ status = "INITIALIZING" <=> t = 0
    /\ (fault = "none" /\ t < MaxTicks) => (CanTick("RED") /\ CanTick("GREEN"))

\* a tick took the status from RED to GREEN
C15_Witness ==
    /\ last.op = "tick"
    /\ pre.status = "RED"
    /\ status = "GREEN"

(* C16: in every state the keys of the infusion rates are exactly the three  *)
(* infused drugs, the Ketorolac status entry is never among them, and every  *)
(* rate is a number >= 0.                                                    *)
C16_VectorShape ==
    /\ DOMAIN infusions = {"Dexmedetomidine", "Ketamine", "Lidocaine"}
    /\ \A d \in DOMAIN infusions : infusions[d].tag = "float" /\ infusions[d].v >= 0

\* rates were generated with the Ketorolac status in the returned dict
C16_Witness ==
    /\ last.op = "generate_starting_rates"
    /\ t > 0
    /\ "Ketorolac Adjunct" \in DOMAIN last.result
    /\ last.result["Ketorolac Adjunct"].tag = "str"
    /\ "Ketorolac Adjunct" \notin DOMAIN infusions

-----------------------------------------------------------------------------
(* Infusion and washout on the estimator *)

\* the last call was update_concentration with rate 0
ZeroRateCall == last.op = "update_concentration" /\ last.rate = Zero

(* C19 as stated: with rate 0 on every tick and k10, k1e and the time step   *)
(* >= 0, Cp does not increase from tick to tick and is strictly lower than a *)
(* positive peak after at least one such tick, and Ce does not increase on a *)
(* tick at which Cp is at or below the previous Ce.                          *)
C19_Washout ==
    ZeroRateCall =>
        /\ dex_pk.Cp.v <= pre.dex_pk.Cp.v
        /\ hist.peak.v > 0 => dex_pk.Cp.v < hist.peak.v
        /\ dex_pk.Cp.v <= pre.dex_pk.Ce.v => dex_pk.Ce.v <= pre.dex_pk.Ce.v

(* C19: with rate 0 on every tick, on a tick with k10 > 0 and a time step    *)
(* > 0 Cp does not increase, and Cp is strictly lower than a positive peak   *)
(* once a zero-rate tick with k10 > 0 and a time step > 0 has passed; Ce     *)
(* does not increase on a tick at which the updated Cp is at or below the    *)
(* previous Ce, for every k1e and time step >= 0.                            *)
C19_WashoutDecay ==
    ZeroRateCall =>
        /\ (dex_pk.k10.v > 0 /\ last.dt.v > 0) => dex_pk.Cp.v <= pre.dex_pk.Cp.v
        /\ (dex_pk.k10.v > 0 /\ hist.washout.v > 0 /\ hist.peak.v > 0)
              => dex_pk.Cp.v < hist.peak.v
        /\ dex_pk.Cp.v <= pre.dex_pk.Ce.v => dex_pk.Ce.v <= pre.dex_pk.Ce.v

\* two zero-rate ticks after an infusion: Cp below the peak and still falling,
\* Ce falling with it
C19_Witness ==
    /\ ZeroRateCall
    /\ hist.zeros >= 2
    /\ dex_pk.k10.v > 0
    /\ last.dt.v > 0
    /\ hist.peak.v > 0
    /\ dex_pk.Cp.v > 0
    /\ dex_pk.Cp.v < pre.dex_pk.Cp.v
    /\ pre.dex_pk.Cp.v < hist.peak.v
    /\ dex_pk.Ce.v < pre.dex_pk.Ce.v

\* every call so far had a rate > 0 and a step > 0, and there was one
Infusing == hist.calls >= 1 /\ hist.infusing /\ dex_pk.Vc.v > 0 /\ dex_pk.k1e.v > 0

(* C20 as stated: from Cp = Ce = 0, a call with a rate > 0 and a time step   *)
(* > 0 leaves Cp > 0 and Ce > 0, and both stay above 0 while the infusion    *)
(* goes on.                                                                  *)
C20_Infusion ==
    Infusing => (dex_pk.Cp.v > 0 /\ dex_pk.Ce.v > 0)

(* C20: from Cp = Ce = 0, one call with a rate > 0 and a time step > 0       *)
(* leaves Cp > 0 and Ce > 0; both stay above 0 while the infusion goes on    *)
(* with steps for which k10 * dt <= 1 and k1e * dt <= 1.                     *)
C20_InfusionWithinStep ==
    Infusing =>
        /\ hist.calls = 1 => (dex_pk.Cp.v > 0 /\ dex_pk.Ce.v > 0)
        /\ (FMul(dex_pk.k10, hist.maxdt).v <= Scale /\ FMul(dex_pk.k1e, hist.maxdt).v <= Scale)
              => (dex_pk.Cp.v > 0 /\ dex_pk.Ce.v > 0)

\* the first call from Cp = Ce = 0 raised both levels
C20_Witness ==
    /\ Infusing
    /\ hist.calls = 1
    /\ pre.dex_pk.Cp = Zero
    /\ pre.dex_pk.Ce = Zero
    /\ dex_pk.Cp.v > 0
    /\ dex_pk.Ce.v > 0

-----------------------------------------------------------------------------
(* The loop as a whole: its end, its frame and the states it reaches *)

\* the loop has an iteration left: for t in range(duration_sec)
LoopRuns == t < MaxTicks

(* C21: the loop has no terminal state: after any number of ticks, as long  *)
(* as no exception ended it, a further tick is enabled.                     *)
C21_LoopNeverEnds ==
    fault = "none" => LoopRuns

(* C22: the lockouts are computed at construction and never changed         *)
(* afterwards: no tick, no generate_starting_rates call and no              *)
(* check_contraindication call modifies them.                               *)
C22_LockoutsFrozen ==
    [][ hard_lockouts' = hard_lockouts ]_vars

\* a refusing check, made after protocol generation and an interlock, found
\* the lockouts of the constructor
C22_Witness ==
    /\ last.op = "check_contraindication"
    /\ ~last.allowed
    /\ t > 1
    /\ status = "RED"
    /\ infusions # InitialInfusions
    /\ hard_lockouts = calculate_initial_lockouts(patient)

(* C23: a completed tick on which neither interlock fires and whose status  *)
(* before was GREEN leaves every infusion rate as it was and the status     *)
(* GREEN, also when the rates in force are not the protocol's.              *)
C23_GreenTickHolds ==
    [][ (TickDone /\ ~(HrLow' /\ CeHigh') /\ ~MapLow' /\ status = "GREEN")
            => (infusions' = infusions /\ status' = "GREEN") ]_vars

\* a rate written by the caller while GREEN survived a stable tick
C23_Witness ==
    /\ last.op = "tick"
    /\ pre.status = "GREEN" /\ status = "GREEN"
    /\ infusions["Ketamine"] \in ManualRates
    /\ infusions # ProtocolVector
    /\ infusions = pre.infusions

(* C24: no interlock changes the Ketamine rate: a completed tick that ends  *)
(* RED leaves the Ketamine rate as it was, and one on which Interlock A     *)
(* fires leaves the Lidocaine rate as it was too.                           *)
C24_KetamineUntouched ==
    [][ (TickDone /\ ((HrLow' /\ CeHigh') \/ MapLow'))
            => /\ status' = "RED"
               /\ infusions'["Ketamine"] = infusions["Ketamine"]
               /\ (HrLow' /\ CeHigh') => infusions'[Lido] = infusions[Lido] ]_vars

\* Interlock B paused Dexmedetomidine and Lidocaine; Ketamine runs on at the
\* rate the caller wrote
C24_Witness ==
    /\ last.op = "tick"
    /\ status = "RED" /\ MapLow /\ ~(HrLow /\ CeHigh)
    /\ pre.infusions["Ketamine"] \in ManualRates
    /\ infusions["Ketamine"] = pre.infusions["Ketamine"]
    /\ pre.infusions[Lido].v > 0 /\ infusions[Lido] = Zero

(* C25: in every state a tick of the loop leaves, if the status is RED the  *)
(* Dexmedetomidine rate is 0.                                               *)
C25_RedMeansDexStopped ==
    (last.op = "tick" /\ fault = "none" /\ status = "RED") => infusions[Dex] = Zero

\* a second RED tick in a row: the rate stopped by the first is still 0
C25_Witness ==
    /\ last.op = "tick"
    /\ pre.status = "RED" /\ status = "RED"
    /\ ~DexLocked
    /\ dex_pk.Cp.v > 0
    /\ infusions[Dex] = Zero

(* C26: for a patient whose Dexmedetomidine is locked out, Cp and Ce are 0  *)
(* after every tick, so the condition of Interlock A never holds and a tick *)
(* ends RED only with map below its threshold.                              *)
C26_LockedNeverConcentrates ==
    DexLocked =>
        /\ dex_pk.Cp = Zero
        /\ dex_pk.Ce = Zero
        /\ ~CeHigh
        /\ (last.op = "tick" /\ status = "RED") => MapLow

\* a locked patient through ticks with a low heart rate: GREEN, nothing given
C26_Witness ==
    /\ DexLocked
    /\ last.op = "tick"
    /\ t > 1
    /\ HrLow /\ ~MapLow
    /\ status = "GREEN" /\ pre.status = "RED"
    /\ dex_pk.Ce = Zero

=============================================================================
